---- MODULE Spec2Model ----
(***************************************************************************)
(* Model of the token-core address codec (tcx-btc-fork/src/address.rs) and *)
(* of the TRON transaction signer (tcx-tron/src/transaction.rs).           *)
(*                                                                         *)
(* Text is a sequence of one-character strings, bytes are naturals below   *)
(* 256 and 5-bit groups are naturals below 32.  Base58, Base58Check and    *)
(* Bech32 are computed digit by digit as the bitcoin and bech32 crates     *)
(* compute them, so the texts of the model are the texts of the program.   *)
(* The digests (double SHA-256, hash160) and the curve check are tables    *)
(* over the byte strings the model's inputs give rise to.                  *)
(***************************************************************************)
EXTENDS Integers, Sequences, FiniteSets, TLC

(***************************************************************************)
(* Generic helpers                                                         *)
(***************************************************************************)
Range(s) == {s[i] : i \in 1..Len(s)}

IndexOf(s, c) == CHOOSE i \in 1..Len(s) : s[i] = c

Repeat(x, n) == [i \in 1..n |-> x]

Reverse(s) == [i \in 1..Len(s) |-> s[Len(s) + 1 - i]]

Pow2(n) == 2 ^ n

\* "first; then": TLC evaluates an operator's arguments only when they are used,
\* and the comparison has the value of `first` computed before `then` is entered.
After(first, then) == IF first = first THEN then ELSE then

\* A loop "for i in lo..=hi { state = Op(state, i) }".  The range is split in
\* halves, the first half computed before the second is entered, so that the
\* evaluation nests only logarithmically deep.
RECURSIVE Loop(_, _, _, _)
Loop(Op(_, _), state, lo, hi) ==
    IF lo > hi THEN state
    ELSE IF lo = hi THEN Op(state, lo)
    ELSE LET mid == (lo + hi) \div 2
             half == Loop(Op, state, lo, mid)
         IN  After(half, Loop(Op, half, mid + 1, hi))

\* A 30-bit word of the Bech32 checksum is the set of the positions of its one
\* bits (bit 0 the lowest): ^ is the symmetric difference, << and >> are shifts
\* of the positions.
Bits(n) == {i \in 0..29 : (n \div Pow2(i)) % 2 = 1}

Xor(a, b) == (a \ b) \cup (b \ a)

Bit(w, i) == IF i \in w THEN 1 ELSE 0

\* (w >> sh) & 31
Low5(w, sh) ==
    Bit(w, sh) + 2 * Bit(w, sh + 1) + 4 * Bit(w, sh + 2) + 8 * Bit(w, sh + 3) + 16 * Bit(w, sh + 4)

(***************************************************************************)
(* Characters                                                              *)
(***************************************************************************)
UpperChars == <<"A","B","C","D","E","F","G","H","I","J","K","L","M",
                "N","O","P","Q","R","S","T","U","V","W","X","Y","Z">>
LowerChars == <<"a","b","c","d","e","f","g","h","i","j","k","l","m",
                "n","o","p","q","r","s","t","u","v","w","x","y","z">>

is_uppercase(c) == c \in Range(UpperChars)
is_lowercase(c) == c \in Range(LowerChars)

\* char::to_lowercase / str::to_lowercase on ASCII text
char_to_lowercase(c) == IF is_uppercase(c) THEN LowerChars[IndexOf(UpperChars, c)] ELSE c
to_lowercase(s) == [i \in 1..Len(s) |-> char_to_lowercase(s[i])]

char_to_uppercase(c) == IF is_lowercase(c) THEN UpperChars[IndexOf(LowerChars, c)] ELSE c
to_uppercase(s) == [i \in 1..Len(s) |-> char_to_uppercase(s[i])]

\* the printable ASCII characters in the order of their bytes, from the space
\* (32) to the tilde (126); the grave accent (96) cannot be written in a
\* string and is no character of the texts
AsciiChars ==
    <<" ", "!", "\"", "#", "$", "%", "&", "'", "(", ")", "*", "+", ",", "-", ".", "/",
      "0", "1", "2", "3", "4", "5", "6", "7", "8", "9", ":", ";", "<", "=", ">", "?",
      "@", "A", "B", "C", "D", "E", "F", "G", "H", "I", "J", "K", "L", "M", "N", "O",
      "P", "Q", "R", "S", "T", "U", "V", "W", "X", "Y", "Z", "[", "\\", "]", "^", "_",
      "a", "b", "c", "d", "e", "f", "g", "h", "i", "j", "k", "l", "m", "n", "o",
      "p", "q", "r", "s", "t", "u", "v", "w", "x", "y", "z", "{", "|", "}", "~">>

\* the byte of a character
AsciiCode(c) ==
    LET i == IndexOf(AsciiChars, c)
    IN  IF i <= 64 THEN 31 + i ELSE 32 + i

\* str::rfind("1"): the 0-based index of the last '1', or -1 when there is none
rfind1(s) ==
    IF \E i \in 1..Len(s) : s[i] = "1"
    THEN (CHOOSE i \in 1..Len(s) : s[i] = "1" /\ \A j \in (i + 1)..Len(s) : s[j] # "1") - 1
    ELSE -1

(***************************************************************************)
(* Results: Ok(value), Err(error) and a panic of the thread                *)
(***************************************************************************)
Ok(v) == [tag |-> "Ok", val |-> v]
Err(e) == [tag |-> "Err", err |-> e]
Panic(m) == [tag |-> "Panic", msg |-> m]

IsOk(r) == r.tag = "Ok"
IsErr(r) == r.tag = "Err"
IsPanic(r) == r.tag = "Panic"

\* an error value: its variant, the variant of the library error it wraps (if
\* any) and the numbers it carries
E(kind, arg) == [kind |-> kind, sub |-> "", arg |-> arg]

\* BtcAddressError::Base58(base58::Error) and BtcAddressError::Bech32(bech32::Error),
\* as the ? operator wraps the errors of the two libraries
Base58E(sub, arg) == [kind |-> "Base58", sub |-> sub, arg |-> arg]
Bech32E(sub) == [kind |-> "Bech32", sub |-> sub, arg |-> <<>>]

(***************************************************************************)
(* Base58 (bitcoin::util::base58)                                          *)
(***************************************************************************)
BASE58_CHARS ==
    <<"1","2","3","4","5","6","7","8","9",
      "A","B","C","D","E","F","G","H","J","K","L","M","N","P","Q","R","S","T","U","V","W","X","Y","Z",
      "a","b","c","d","e","f","g","h","i","j","k","m","n","o","p","q","r","s","t","u","v","w","x","y","z">>

\* BASE58_DIGITS: the digit of a character, 0-based
BASE58_DIGITS == [c \in Range(BASE58_CHARS) |-> IndexOf(BASE58_CHARS, c) - 1]

\* one step of "X = X * 58 + next_digit" in base 256, at byte i of the scratch
b58_muladd(st, i) ==
    LET c == st.carry + st.scratch[i] * 58
    IN  [scratch |-> [st.scratch EXCEPT ![i] = c % 256], carry |-> c \div 256]

\* the pass over the scratch for one digit, last byte first; assert_eq!(carry, 0)
b58_digit(built, d58) ==
    IF IsPanic(built) THEN built
    ELSE LET n == Len(built.val)
             pass == Loop(LAMBDA st, j : b58_muladd(st, n + 1 - j),
                          [scratch |-> built.val, carry |-> d58], 1, n)
         IN  IF pass.carry # 0 THEN Panic("assert_eq!(carry, 0)") ELSE Ok(pass.scratch)

\* the number of leading elements of s equal to x
leading_count(s, x) ==
    IF \A i \in 1..Len(s) : s[i] = x THEN Len(s)
    ELSE (CHOOSE i \in 1..Len(s) : s[i] # x /\ \A j \in 1..(i - 1) : s[j] = x) - 1

\* the number of leading elements of s that are in set
leading_in(s, set) ==
    IF \A i \in 1..Len(s) : s[i] \in set THEN Len(s)
    ELSE (CHOOSE i \in 1..Len(s) : s[i] \notin set /\ \A j \in 1..(i - 1) : s[j] \in set) - 1

\* base58::from: text to bytes, or BadByte
base58_from(data) ==
    IF \E k \in 1..Len(data) : data[k] \notin Range(BASE58_CHARS)
    THEN Err(Base58E("BadByte", <<AsciiCode(data[leading_in(data, Range(BASE58_CHARS)) + 1])>>))
    ELSE LET built == Loop(LAMBDA st, k : b58_digit(st, BASE58_DIGITS[data[k]]),
                           Ok(Repeat(0, 1 + (Len(data) * 11) \div 15)), 1, Len(data))
         IN  IF IsPanic(built) THEN built
             ELSE Ok(Repeat(0, leading_count(data, "1")) \o
                     SubSeq(built.val, leading_count(built.val, 0) + 1, Len(built.val)))

\* "while carry > 0 { ret.push(carry % 58); carry /= 58 }"
RECURSIVE b58_push(_, _)
b58_push(ret, carry) ==
    IF carry > 0 THEN b58_push(Append(ret, carry % 58), carry \div 58) ELSE ret

\* one step of "ret = ret * 256 + d256" at digit i of the little-endian base-58 digits
b58_enc_step(st, i) ==
    LET new_ch == st.ret[i] * 256 + st.carry
    IN  [ret |-> [st.ret EXCEPT ![i] = new_ch % 58], carry |-> new_ch \div 58]

b58_enc_byte(ret, d256) ==
    LET pass == Loop(b58_enc_step, [ret |-> ret, carry |-> d256], 1, Len(ret))
    IN  b58_push(pass.ret, pass.carry)

\* base58::encode_slice: bytes to text
base58_encode(data) ==
    LET ret == Loop(LAMBDA r, k : b58_enc_byte(r, data[k]), <<>>, 1, Len(data)) \o
               Repeat(0, leading_count(data, 0))
        rev == Reverse(ret)
    IN  [i \in 1..Len(rev) |-> BASE58_CHARS[rev[i] + 1]]

(***************************************************************************)
(* Bech32 (the bech32 crate)                                               *)
(***************************************************************************)
SEP == "1"

CHARSET ==
    <<"q","p","z","r","y","9","x","8","g","f","2","t","v","d","w","0",
      "s","3","j","n","5","4","k","h","c","e","6","m","u","a","7","l">>

\* CHARSET_REV: the value of a data character of either case, -1 for any other character
CHARSET_REV(c) ==
    IF char_to_lowercase(c) \in Range(CHARSET) THEN IndexOf(CHARSET, char_to_lowercase(c)) - 1 ELSE -1

GEN == <<Bits(996825010), Bits(642813549), Bits(513874426), Bits(1027748829), Bits(705979059)>>

\* one step of polymod: b = chk >> 25; chk = (chk & 0x1ffffff) << 5 ^ v; chk ^= GEN[i] for the bits of b
polymod_step(chk, v) ==
    Loop(LAMBDA c, i : IF (24 + i) \in chk THEN Xor(c, GEN[i]) ELSE c,
         Xor({i + 5 : i \in chk \cap 0..24}, Bits(v)), 1, 5)

polymod(values) == Loop(LAMBDA chk, k : polymod_step(chk, values[k]), Bits(1), 1, Len(values))

hrp_expand(hrp) ==
    [i \in 1..Len(hrp) |-> AsciiCode(hrp[i]) \div 32] \o <<0>> \o
    [i \in 1..Len(hrp) |-> AsciiCode(hrp[i]) % 32]

verify_checksum(hrp, data) == polymod(hrp_expand(hrp) \o data) = Bits(1)

create_checksum(hrp, data) ==
    LET plm == Xor(polymod(hrp_expand(hrp) \o data \o <<0, 0, 0, 0, 0, 0>>), Bits(1))
    IN  [p \in 1..6 |-> Low5(plm, 5 * (6 - p))]

\* Bech32Writer: the hrp, the separator, the data and the checksum as characters
bech32_write(hrp, data) ==
    LET all == data \o create_checksum(hrp, data)
    IN  hrp \o <<SEP>> \o [i \in 1..Len(all) |-> CHARSET[all[i] + 1]]

\* "while bits >= to { bits -= to; ret.push((acc >> bits) & maxv) }"
RECURSIVE convert_bits_push(_, _)
convert_bits_push(st, to) ==
    IF st.bits >= to
    THEN convert_bits_push([acc |-> st.acc, bits |-> st.bits - to,
                            ret |-> Append(st.ret, (st.acc \div Pow2(st.bits - to)) % Pow2(to))], to)
    ELSE st

\* "acc = (acc << from) | v; bits += from" and the pushes; acc is a u32 of which
\* only the low bits + from bits are read, and the model keeps its low 16 bits
convert_bits_value(st, v, from, to) ==
    convert_bits_push([acc |-> (st.acc * Pow2(from) + v) % Pow2(16),
                       bits |-> st.bits + from, ret |-> st.ret], to)

\* bech32::convert_bits
convert_bits(data, from, to, pad) ==
    IF \E k \in 1..Len(data) : data[k] \div Pow2(from) # 0
    THEN Err(Bech32E("InvalidData"))
    ELSE LET r == Loop(LAMBDA st, k : convert_bits_value(st, data[k], from, to),
                       [acc |-> 0, bits |-> 0, ret |-> <<>>], 1, Len(data))
             rest == (r.acc * Pow2(to - r.bits)) % Pow2(to)
         IN  IF pad
             THEN Ok(IF r.bits > 0 THEN Append(r.ret, rest) ELSE r.ret)
             ELSE IF r.bits >= from \/ rest # 0
                  THEN Err(Bech32E("InvalidPadding"))
                  ELSE Ok(r.ret)

\* bech32::decode: the lower-cased hrp and the data without its checksum
bech32_decode(s) ==
    LET sep == rfind1(s)
        raw_hrp == SubSeq(s, 1, sep)
        raw_data == SubSeq(s, sep + 2, Len(s))
        hrp_bytes == to_lowercase(raw_hrp)
        payload == [i \in 1..Len(raw_data) |-> CHARSET_REV(raw_data[i])]
        has_lower == \E i \in 1..Len(s) : is_lowercase(s[i])
        has_upper == \E i \in 1..Len(s) : is_uppercase(s[i])
    IN  IF Len(s) < 8 THEN Err(Bech32E("InvalidLength"))
        ELSE IF sep = -1 THEN Err(Bech32E("MissingSeparator"))
        ELSE IF Len(raw_hrp) < 1 \/ Len(raw_data) < 6 THEN Err(Bech32E("InvalidLength"))
        ELSE IF \E i \in 1..Len(raw_hrp) : (AsciiCode(raw_hrp[i]) < 33 \/ AsciiCode(raw_hrp[i]) > 126)
             THEN Err(Bech32E("InvalidChar"))
        ELSE IF \E i \in 1..Len(raw_data) : payload[i] = -1
             THEN Err(Bech32E("InvalidChar"))
        ELSE IF has_lower /\ has_upper THEN Err(Bech32E("MixedCase"))
        ELSE IF ~verify_checksum(hrp_bytes, payload) THEN Err(Bech32E("InvalidChecksum"))
        ELSE Ok([hrp |-> hrp_bytes, data |-> SubSeq(payload, 1, Len(payload) - 6)])

(***************************************************************************)
(* Option                                                                  *)
(***************************************************************************)
None == [tag |-> "None"]
Some(v) == [tag |-> "Some", val |-> v]

is_some(o) == o.tag = "Some"
is_none(o) == o.tag = "None"

(***************************************************************************)
(* Network registry                                                        *)
(***************************************************************************)
BtcForkNetwork(coin, hrp, p2pkh_prefix, p2sh_prefix, xpub_prefix, xprv_prefix) ==
    [coin |-> coin, hrp |-> hrp, p2pkh_prefix |-> p2pkh_prefix, p2sh_prefix |-> p2sh_prefix,
     xpub_prefix |-> xpub_prefix, xprv_prefix |-> xprv_prefix]

\* the arms of the match in network_from_coin
network_match(lc) ==
        IF lc = <<"l","t","c">>
        THEN Some(BtcForkNetwork(<<"L","T","C">>, <<"l","t","c">>, 48, 50, <<4, 136, 178, 30>>, <<4, 136, 173, 228>>))
        ELSE IF lc = <<"l","t","c","-","t","e","s","t","n","e","t">>
        THEN Some(BtcForkNetwork(<<"L","T","C","-","T","E","S","T","N","E","T">>, <<"l","t","c">>, 111, 58, <<4, 136, 178, 30>>, <<4, 136, 173, 228>>))
        ELSE IF lc = <<"b","t","c">> \/ lc = <<"b","c">>
        THEN Some(BtcForkNetwork(<<"B","T","C">>, <<"b","c">>, 0, 5, <<4, 136, 178, 30>>, <<4, 136, 173, 228>>))
        ELSE IF lc = <<"b","t","c","-","t","e","s","t","n","e","t">>
        THEN Some(BtcForkNetwork(<<"B","T","C","-","T","E","S","T","N","E","T">>, <<"b","c">>, 111, 196, <<4, 136, 178, 30>>, <<4, 136, 173, 228>>))
        ELSE IF lc = <<"b","i","t","c","o","i","n","c","a","s","h">> \/ lc = <<"b","c","h">>
        THEN Some(BtcForkNetwork(<<"B","C","H">>, <<"b","i","t","c","o","i","n","c","a","s","h">>, 0, 5, <<4, 136, 178, 30>>, <<4, 136, 173, 228>>))
        ELSE None

\* network_from_coin without the folding of letter case
network_from_coin_exact(coin) == network_match(coin)

network_from_coin(coin) == network_match(to_lowercase(coin))

(***************************************************************************)
(* Digests and the curve check.                                            *)
(* The tables hold SHA-256d (first 4 bytes) and hash160 of the byte        *)
(* strings the inputs of the model give rise to, and the encodings of the  *)
(* points of secp256k1 among the public keys of the model.                 *)
(***************************************************************************)
\* the key of the known-answer test, a key whose Litecoin P2PKH text reads
\* "LTC1..." with no other '1', and 33 bytes that encode no point of the curve
TestVectorKey ==
    <<2, 80, 107, 193, 220, 9, 147, 88, 229, 19, 114, 146, 244, 239, 221, 87,
      228, 0, 242, 155, 165, 19, 42, 165, 209, 43, 24, 218, 193, 193, 246, 170,
      186>>
Ltc1Key ==
    <<3, 238, 206, 56, 202, 57, 19, 195, 45, 66, 46, 9, 52, 178, 190, 181,
      241, 7, 101, 66, 86, 30, 229, 203, 220, 135, 140, 40, 110, 182, 246, 239,
      218>>
OffCurveKey ==
    <<2, 0, 0, 0, 0, 0, 0, 0, 0, 0, 0, 0, 0, 0, 0, 0,
      0, 0, 0, 0, 0, 0, 0, 0, 0, 0, 0, 0, 0, 0, 0, 0,
      5>>
CurvePoints == {TestVectorKey, Ltc1Key}

\* a hash whose Base58Check text under version byte 85 reads "bc1..." with no other '1'
BcHash ==
    <<255, 78, 77, 81, 105, 229, 43, 164, 173, 215, 46, 233, 126, 252, 72, 29,
      53, 64, 9, 82>>

\* a 20-byte and a 22-byte payload
ShortPayload ==
    <<5, 230, 207, 170, 185, 165, 155, 161, 135, 240, 164, 93, 176, 177, 105, 194,
      27, 180, 143, 9>>
LongPayload ==
    <<5, 230, 207, 170, 185, 165, 155, 161, 135, 240, 164, 93, 176, 177, 105, 194,
      27, 180, 143, 9, 179, 7>>

Hash160Table ==
    <<2, 80, 107, 193, 220, 9, 147, 88, 229, 19, 114, 146, 244, 239, 221, 87, 228, 0, 242, 155, 165, 19, 42, 165, 209, 43, 24, 218, 193, 193, 246, 170, 186>> :>
        <<230, 207, 170, 185, 165, 155, 161, 135, 240, 164, 93, 176, 177, 105, 194, 27, 180, 143, 9, 179>> @@
    <<0, 20, 230, 207, 170, 185, 165, 155, 161, 135, 240, 164, 93, 176, 177, 105, 194, 27, 180, 143, 9, 179>> :>
        <<188, 100, 178, 215, 152, 7, 205, 61, 114, 16, 28, 50, 152, 184, 145, 23, 211, 32, 151, 251>> @@
    <<3, 238, 206, 56, 202, 57, 19, 195, 45, 66, 46, 9, 52, 178, 190, 181, 241, 7, 101, 66, 86, 30, 229, 203, 220, 135, 140, 40, 110, 182, 246, 239, 218>> :>
        <<87, 98, 203, 224, 1, 197, 21, 32, 166, 155, 32, 107, 195, 23, 244, 85, 60, 234, 178, 103>> @@
    <<0, 20, 87, 98, 203, 224, 1, 197, 21, 32, 166, 155, 32, 107, 195, 23, 244, 85, 60, 234, 178, 103>> :>
        <<87, 91, 44, 35, 134, 97, 162, 136, 8, 248, 249, 227, 152, 98, 56, 139, 25, 64, 219, 192>> @@
    <<2, 0, 0, 0, 0, 0, 0, 0, 0, 0, 0, 0, 0, 0, 0, 0, 0, 0, 0, 0, 0, 0, 0, 0, 0, 0, 0, 0, 0, 0, 0, 0, 5>> :>
        <<230, 205, 195, 249, 245, 13, 217, 139, 145, 217, 112, 135, 128, 47, 200, 253, 234, 204, 187, 81>> @@
    <<0, 20, 230, 205, 195, 249, 245, 13, 217, 139, 145, 217, 112, 135, 128, 47, 200, 253, 234, 204, 187, 81>> :>
        <<165, 128, 254, 118, 69, 114, 200, 109, 171, 181, 243, 211, 194, 168, 83, 191, 92, 7, 8, 169>>

Sha256dTable ==
    <<0, 230, 207, 170, 185, 165, 155, 161, 135, 240, 164, 93, 176, 177, 105, 194, 27, 180, 143, 9, 179>> :> <<251, 164, 6, 74>> @@
    <<0, 188, 100, 178, 215, 152, 7, 205, 61, 114, 16, 28, 50, 152, 184, 145, 23, 211, 32, 151, 251>> :> <<221, 46, 107, 71>> @@
    <<0, 87, 98, 203, 224, 1, 197, 21, 32, 166, 155, 32, 107, 195, 23, 244, 85, 60, 234, 178, 103>> :> <<233, 33, 14, 246>> @@
    <<0, 87, 91, 44, 35, 134, 97, 162, 136, 8, 248, 249, 227, 152, 98, 56, 139, 25, 64, 219, 192>> :> <<212, 65, 138, 194>> @@
    <<0, 230, 205, 195, 249, 245, 13, 217, 139, 145, 217, 112, 135, 128, 47, 200, 253, 234, 204, 187, 81>> :> <<63, 240, 156, 58>> @@
    <<0, 165, 128, 254, 118, 69, 114, 200, 109, 171, 181, 243, 211, 194, 168, 83, 191, 92, 7, 8, 169>> :> <<124, 3, 65, 231>> @@
    <<0, 255, 78, 77, 81, 105, 229, 43, 164, 173, 215, 46, 233, 126, 252, 72, 29, 53, 64, 9, 82>> :> <<70, 40, 156, 140>> @@
    <<5, 230, 207, 170, 185, 165, 155, 161, 135, 240, 164, 93, 176, 177, 105, 194, 27, 180, 143, 9, 179>> :> <<174, 140, 157, 155>> @@
    <<5, 188, 100, 178, 215, 152, 7, 205, 61, 114, 16, 28, 50, 152, 184, 145, 23, 211, 32, 151, 251>> :> <<148, 200, 176, 127>> @@
    <<5, 87, 98, 203, 224, 1, 197, 21, 32, 166, 155, 32, 107, 195, 23, 244, 85, 60, 234, 178, 103>> :> <<86, 252, 115, 73>> @@
    <<5, 87, 91, 44, 35, 134, 97, 162, 136, 8, 248, 249, 227, 152, 98, 56, 139, 25, 64, 219, 192>> :> <<239, 82, 219, 56>> @@
    <<5, 230, 205, 195, 249, 245, 13, 217, 139, 145, 217, 112, 135, 128, 47, 200, 253, 234, 204, 187, 81>> :> <<77, 28, 41, 7>> @@
    <<5, 165, 128, 254, 118, 69, 114, 200, 109, 171, 181, 243, 211, 194, 168, 83, 191, 92, 7, 8, 169>> :> <<43, 119, 153, 134>> @@
    <<5, 255, 78, 77, 81, 105, 229, 43, 164, 173, 215, 46, 233, 126, 252, 72, 29, 53, 64, 9, 82>> :> <<125, 31, 140, 111>> @@
    <<48, 230, 207, 170, 185, 165, 155, 161, 135, 240, 164, 93, 176, 177, 105, 194, 27, 180, 143, 9, 179>> :> <<11, 187, 116, 23>> @@
    <<48, 188, 100, 178, 215, 152, 7, 205, 61, 114, 16, 28, 50, 152, 184, 145, 23, 211, 32, 151, 251>> :> <<184, 206, 169, 192>> @@
    <<48, 87, 98, 203, 224, 1, 197, 21, 32, 166, 155, 32, 107, 195, 23, 244, 85, 60, 234, 178, 103>> :> <<51, 73, 49, 228>> @@
    <<48, 87, 91, 44, 35, 134, 97, 162, 136, 8, 248, 249, 227, 152, 98, 56, 139, 25, 64, 219, 192>> :> <<178, 158, 108, 82>> @@
    <<48, 230, 205, 195, 249, 245, 13, 217, 139, 145, 217, 112, 135, 128, 47, 200, 253, 234, 204, 187, 81>> :> <<125, 110, 41, 93>> @@
    <<48, 165, 128, 254, 118, 69, 114, 200, 109, 171, 181, 243, 211, 194, 168, 83, 191, 92, 7, 8, 169>> :> <<15, 27, 116, 247>> @@
    <<48, 255, 78, 77, 81, 105, 229, 43, 164, 173, 215, 46, 233, 126, 252, 72, 29, 53, 64, 9, 82>> :> <<13, 208, 107, 182>> @@
    <<50, 230, 207, 170, 185, 165, 155, 161, 135, 240, 164, 93, 176, 177, 105, 194, 27, 180, 143, 9, 179>> :> <<157, 76, 64, 252>> @@
    <<50, 188, 100, 178, 215, 152, 7, 205, 61, 114, 16, 28, 50, 152, 184, 145, 23, 211, 32, 151, 251>> :> <<129, 182, 131, 49>> @@
    <<50, 87, 98, 203, 224, 1, 197, 21, 32, 166, 155, 32, 107, 195, 23, 244, 85, 60, 234, 178, 103>> :> <<168, 66, 60, 120>> @@
    <<50, 87, 91, 44, 35, 134, 97, 162, 136, 8, 248, 249, 227, 152, 98, 56, 139, 25, 64, 219, 192>> :> <<1, 193, 250, 136>> @@
    <<50, 230, 205, 195, 249, 245, 13, 217, 139, 145, 217, 112, 135, 128, 47, 200, 253, 234, 204, 187, 81>> :> <<4, 4, 220, 196>> @@
    <<50, 165, 128, 254, 118, 69, 114, 200, 109, 171, 181, 243, 211, 194, 168, 83, 191, 92, 7, 8, 169>> :> <<95, 211, 227, 203>> @@
    <<50, 255, 78, 77, 81, 105, 229, 43, 164, 173, 215, 46, 233, 126, 252, 72, 29, 53, 64, 9, 82>> :> <<198, 167, 10, 227>> @@
    <<58, 230, 207, 170, 185, 165, 155, 161, 135, 240, 164, 93, 176, 177, 105, 194, 27, 180, 143, 9, 179>> :> <<122, 171, 48, 119>> @@
    <<58, 188, 100, 178, 215, 152, 7, 205, 61, 114, 16, 28, 50, 152, 184, 145, 23, 211, 32, 151, 251>> :> <<53, 11, 134, 165>> @@
    <<58, 87, 98, 203, 224, 1, 197, 21, 32, 166, 155, 32, 107, 195, 23, 244, 85, 60, 234, 178, 103>> :> <<47, 169, 156, 33>> @@
    <<58, 87, 91, 44, 35, 134, 97, 162, 136, 8, 248, 249, 227, 152, 98, 56, 139, 25, 64, 219, 192>> :> <<160, 103, 30, 205>> @@
    <<58, 230, 205, 195, 249, 245, 13, 217, 139, 145, 217, 112, 135, 128, 47, 200, 253, 234, 204, 187, 81>> :> <<130, 187, 212, 67>> @@
    <<58, 165, 128, 254, 118, 69, 114, 200, 109, 171, 181, 243, 211, 194, 168, 83, 191, 92, 7, 8, 169>> :> <<182, 149, 70, 24>> @@
    <<58, 255, 78, 77, 81, 105, 229, 43, 164, 173, 215, 46, 233, 126, 252, 72, 29, 53, 64, 9, 82>> :> <<90, 232, 92, 255>> @@
    <<111, 230, 207, 170, 185, 165, 155, 161, 135, 240, 164, 93, 176, 177, 105, 194, 27, 180, 143, 9, 179>> :> <<77, 187, 54, 231>> @@
    <<111, 188, 100, 178, 215, 152, 7, 205, 61, 114, 16, 28, 50, 152, 184, 145, 23, 211, 32, 151, 251>> :> <<140, 82, 206, 54>> @@
    <<111, 87, 98, 203, 224, 1, 197, 21, 32, 166, 155, 32, 107, 195, 23, 244, 85, 60, 234, 178, 103>> :> <<67, 255, 234, 112>> @@
    <<111, 87, 91, 44, 35, 134, 97, 162, 136, 8, 248, 249, 227, 152, 98, 56, 139, 25, 64, 219, 192>> :> <<15, 96, 115, 3>> @@
    <<111, 230, 205, 195, 249, 245, 13, 217, 139, 145, 217, 112, 135, 128, 47, 200, 253, 234, 204, 187, 81>> :> <<253, 21, 86, 125>> @@
    <<111, 165, 128, 254, 118, 69, 114, 200, 109, 171, 181, 243, 211, 194, 168, 83, 191, 92, 7, 8, 169>> :> <<254, 97, 93, 179>> @@
    <<111, 255, 78, 77, 81, 105, 229, 43, 164, 173, 215, 46, 233, 126, 252, 72, 29, 53, 64, 9, 82>> :> <<22, 118, 49, 84>> @@
    <<196, 230, 207, 170, 185, 165, 155, 161, 135, 240, 164, 93, 176, 177, 105, 194, 27, 180, 143, 9, 179>> :> <<211, 216, 121, 211>> @@
    <<196, 188, 100, 178, 215, 152, 7, 205, 61, 114, 16, 28, 50, 152, 184, 145, 23, 211, 32, 151, 251>> :> <<145, 212, 251, 37>> @@
    <<196, 87, 98, 203, 224, 1, 197, 21, 32, 166, 155, 32, 107, 195, 23, 244, 85, 60, 234, 178, 103>> :> <<53, 10, 12, 236>> @@
    <<196, 87, 91, 44, 35, 134, 97, 162, 136, 8, 248, 249, 227, 152, 98, 56, 139, 25, 64, 219, 192>> :> <<170, 177, 165, 56>> @@
    <<196, 230, 205, 195, 249, 245, 13, 217, 139, 145, 217, 112, 135, 128, 47, 200, 253, 234, 204, 187, 81>> :> <<243, 97, 4, 173>> @@
    <<196, 165, 128, 254, 118, 69, 114, 200, 109, 171, 181, 243, 211, 194, 168, 83, 191, 92, 7, 8, 169>> :> <<113, 190, 111, 139>> @@
    <<196, 255, 78, 77, 81, 105, 229, 43, 164, 173, 215, 46, 233, 126, 252, 72, 29, 53, 64, 9, 82>> :> <<242, 167, 231, 252>> @@
    <<1, 230, 207, 170, 185, 165, 155, 161, 135, 240, 164, 93, 176, 177, 105, 194, 27, 180, 143, 9, 179>> :> <<114, 210, 126, 191>> @@
    <<1, 188, 100, 178, 215, 152, 7, 205, 61, 114, 16, 28, 50, 152, 184, 145, 23, 211, 32, 151, 251>> :> <<22, 64, 86, 39>> @@
    <<1, 87, 98, 203, 224, 1, 197, 21, 32, 166, 155, 32, 107, 195, 23, 244, 85, 60, 234, 178, 103>> :> <<185, 207, 233, 197>> @@
    <<1, 87, 91, 44, 35, 134, 97, 162, 136, 8, 248, 249, 227, 152, 98, 56, 139, 25, 64, 219, 192>> :> <<198, 220, 247, 122>> @@
    <<1, 230, 205, 195, 249, 245, 13, 217, 139, 145, 217, 112, 135, 128, 47, 200, 253, 234, 204, 187, 81>> :> <<255, 175, 96, 6>> @@
    <<1, 165, 128, 254, 118, 69, 114, 200, 109, 171, 181, 243, 211, 194, 168, 83, 191, 92, 7, 8, 169>> :> <<166, 165, 223, 242>> @@
    <<1, 255, 78, 77, 81, 105, 229, 43, 164, 173, 215, 46, 233, 126, 252, 72, 29, 53, 64, 9, 82>> :> <<206, 61, 95, 4>> @@
    <<85, 230, 207, 170, 185, 165, 155, 161, 135, 240, 164, 93, 176, 177, 105, 194, 27, 180, 143, 9, 179>> :> <<170, 61, 102, 51>> @@
    <<85, 188, 100, 178, 215, 152, 7, 205, 61, 114, 16, 28, 50, 152, 184, 145, 23, 211, 32, 151, 251>> :> <<74, 230, 140, 18>> @@
    <<85, 87, 98, 203, 224, 1, 197, 21, 32, 166, 155, 32, 107, 195, 23, 244, 85, 60, 234, 178, 103>> :> <<230, 185, 223, 240>> @@
    <<85, 87, 91, 44, 35, 134, 97, 162, 136, 8, 248, 249, 227, 152, 98, 56, 139, 25, 64, 219, 192>> :> <<42, 136, 180, 217>> @@
    <<85, 230, 205, 195, 249, 245, 13, 217, 139, 145, 217, 112, 135, 128, 47, 200, 253, 234, 204, 187, 81>> :> <<72, 220, 11, 145>> @@
    <<85, 165, 128, 254, 118, 69, 114, 200, 109, 171, 181, 243, 211, 194, 168, 83, 191, 92, 7, 8, 169>> :> <<241, 238, 6, 44>> @@
    <<85, 255, 78, 77, 81, 105, 229, 43, 164, 173, 215, 46, 233, 126, 252, 72, 29, 53, 64, 9, 82>> :> <<239, 56, 6, 166>> @@
    <<255, 230, 207, 170, 185, 165, 155, 161, 135, 240, 164, 93, 176, 177, 105, 194, 27, 180, 143, 9, 179>> :> <<249, 168, 141, 231>> @@
    <<255, 188, 100, 178, 215, 152, 7, 205, 61, 114, 16, 28, 50, 152, 184, 145, 23, 211, 32, 151, 251>> :> <<123, 174, 60, 186>> @@
    <<255, 87, 98, 203, 224, 1, 197, 21, 32, 166, 155, 32, 107, 195, 23, 244, 85, 60, 234, 178, 103>> :> <<220, 136, 176, 15>> @@
    <<255, 87, 91, 44, 35, 134, 97, 162, 136, 8, 248, 249, 227, 152, 98, 56, 139, 25, 64, 219, 192>> :> <<105, 16, 162, 105>> @@
    <<255, 230, 205, 195, 249, 245, 13, 217, 139, 145, 217, 112, 135, 128, 47, 200, 253, 234, 204, 187, 81>> :> <<184, 246, 202, 20>> @@
    <<255, 165, 128, 254, 118, 69, 114, 200, 109, 171, 181, 243, 211, 194, 168, 83, 191, 92, 7, 8, 169>> :> <<198, 169, 35, 63>> @@
    <<255, 255, 78, 77, 81, 105, 229, 43, 164, 173, 215, 46, 233, 126, 252, 72, 29, 53, 64, 9, 82>> :> <<214, 23, 235, 238>> @@
    <<5, 230, 207, 170, 185, 165, 155, 161, 135, 240, 164, 93, 176, 177, 105, 194, 27, 180, 143, 9>> :> <<200, 67, 129, 21>> @@
    <<5, 230, 207, 170, 185, 165, 155, 161, 135, 240, 164, 93, 176, 177, 105, 194, 27, 180, 143, 9, 179, 7>> :> <<86, 86, 28, 219>>

\* sha256d::Hash::hash(data)[..4]
sha256d(data) == Sha256dTable[data]

\* hash160::Hash::hash(data)
hash160(data) == Hash160Table[data]

\* Secp256k1PublicKey::from_slice: the key, or an error when the bytes are no point
Secp256k1PublicKey_from_slice(bytes) ==
    IF bytes \in CurvePoints THEN Ok(bytes) ELSE Err(E("InvalidPublicKey", <<>>))

\* base58::check_encode_slice
check_encode_slice(data) == base58_encode(data \o sha256d(data))

\* base58::from_check, after the decoding: ret is what base58::from returned
from_check_ret(ret) ==
    IF ~IsOk(ret) THEN ret
    ELSE IF Len(ret.val) < 4 THEN Err(Base58E("TooShort", <<Len(ret.val)>>))
    ELSE LET ck_start == Len(ret.val) - 4
             expected == sha256d(SubSeq(ret.val, 1, ck_start))
             actual == SubSeq(ret.val, ck_start + 1, ck_start + 4)
         IN  IF expected # actual THEN Err(Base58E("BadChecksum", expected \o actual))
             ELSE Ok(SubSeq(ret.val, 1, ck_start))

\* base58::from_check
from_check(data) == from_check_ret(base58_from(data))

(***************************************************************************)
(* Address payload and address                                             *)
(***************************************************************************)
PubkeyHash(hash) == [kind |-> "PubkeyHash", hash |-> hash]
ScriptHash(hash) == [kind |-> "ScriptHash", hash |-> hash]
WitnessProgram(version, program) ==
    [kind |-> "WitnessProgram", version |-> version, program |-> program]

BtcForkAddress(network, payload) == [network |-> network, payload |-> payload]

\* bitcoin::Address::p2pkh / p2shwpkh / p2wpkh: the payload for a parsed key
BtcAddress_p2pkh(pk) == PubkeyHash(hash160(pk))
BtcAddress_p2shwpkh(pk) == ScriptHash(hash160(<<0, 20>> \o hash160(pk)))
BtcAddress_p2wpkh(pk) == WitnessProgram(0, hash160(pk))

(***************************************************************************)
(* Address builder                                                         *)
(***************************************************************************)
p2pkh(pub_key, network) ==
    LET parsed == Secp256k1PublicKey_from_slice(pub_key)
    IN  IF IsErr(parsed) THEN parsed
        ELSE Ok(BtcForkAddress(network, BtcAddress_p2pkh(parsed.val)))

p2shwpkh(pub_key, network) ==
    LET parsed == Secp256k1PublicKey_from_slice(pub_key)
    IN  IF IsErr(parsed) THEN parsed
        ELSE Ok(BtcForkAddress(network, BtcAddress_p2shwpkh(parsed.val)))

p2wpkh(pub_key, network) ==
    LET parsed == Secp256k1PublicKey_from_slice(pub_key)
    IN  IF IsErr(parsed) THEN parsed
        ELSE Ok(BtcForkAddress(network, BtcAddress_p2wpkh(parsed.val)))

(***************************************************************************)
(* Address codec                                                           *)
(***************************************************************************)
\* Display for BtcForkAddress
to_string(addr) ==
    IF addr.payload.kind = "PubkeyHash"
    THEN check_encode_slice(<<addr.network.p2pkh_prefix>> \o addr.payload.hash)
    ELSE IF addr.payload.kind = "ScriptHash"
    THEN check_encode_slice(<<addr.network.p2sh_prefix>> \o addr.payload.hash)
    ELSE bech32_write(addr.network.hrp,
                      <<addr.payload.version>> \o convert_bits(addr.payload.program, 8, 5, TRUE).val)

\* the network of the text before the last '1'
bech32_network(bech32) ==
    LET sep == rfind1(bech32)
    IN  IF sep = -1 THEN None ELSE network_from_coin(SubSeq(bech32, 1, sep))

\* _decode_base58, after the decoding: data is what base58::from_check returned
_decode_base58_data(data) ==
    IF ~IsOk(data) THEN data
    ELSE IF Len(data.val) # 21 THEN Err(Base58E("InvalidLength", <<Len(data.val)>>))
    ELSE data

_decode_base58(addr) ==
    IF Len(addr) > 50 THEN Err(Base58E("InvalidLength", <<(Len(addr) * 11) \div 15>>))
    ELSE _decode_base58_data(from_check(addr))

\* the segwit checks with the upper length bound off by one (>= 40)
segwit_checks_short(version, program, network) ==
    IF IsErr(program) THEN program
    ELSE IF version > 16 THEN Err(E("InvalidWitnessVersion", <<version>>))
    ELSE IF Len(program.val) < 2 \/ Len(program.val) >= 40
    THEN Err(E("InvalidWitnessProgramLength", <<Len(program.val)>>))
    ELSE IF version = 0 /\ (Len(program.val) # 20 /\ Len(program.val) # 32)
    THEN Err(E("InvalidSegwitV0ProgramLength", <<Len(program.val)>>))
    ELSE Ok(BtcForkAddress(network, WitnessProgram(version, program.val)))

\* the segwit checks with the version bound off by one (>= 16)
segwit_checks_v15(version, program, network) ==
    IF IsErr(program) THEN program
    ELSE IF version >= 16 THEN Err(E("InvalidWitnessVersion", <<version>>))
    ELSE IF Len(program.val) < 2 \/ Len(program.val) > 40
    THEN Err(E("InvalidWitnessProgramLength", <<Len(program.val)>>))
    ELSE IF version = 0 /\ (Len(program.val) # 20 /\ Len(program.val) # 32)
    THEN Err(E("InvalidSegwitV0ProgramLength", <<Len(program.val)>>))
    ELSE Ok(BtcForkAddress(network, WitnessProgram(version, program.val)))

\* the generic segwit checks and the check of version 0 in from_str: program
\* is what from_base32 returned for the groups after the version
segwit_checks(version, program, network) ==
    IF IsErr(program) THEN program
    ELSE IF version > 16 THEN Err(E("InvalidWitnessVersion", <<version>>))
    ELSE IF Len(program.val) < 2 \/ Len(program.val) > 40
    THEN Err(E("InvalidWitnessProgramLength", <<Len(program.val)>>))
    ELSE IF version = 0 /\ (Len(program.val) # 20 /\ Len(program.val) # 32)
    THEN Err(E("InvalidSegwitV0ProgramLength", <<Len(program.val)>>))
    ELSE Ok(BtcForkAddress(network, WitnessProgram(version, program.val)))

\* the Bech32 branch of from_str, after the decoding: decoded is what
\* bech32::decode returned
from_str_payload(decoded, network) ==
    IF IsErr(decoded) THEN decoded
    ELSE IF Len(decoded.val.data) = 0 THEN Err(E("EmptyBech32Payload", <<>>))
    ELSE segwit_checks(decoded.val.data[1], convert_bits(Tail(decoded.val.data), 5, 8, FALSE), network)

\* the Bech32 branch of from_str, for a text whose prefix names a network
from_str_bech32(s, network) == from_str_payload(bech32_decode(s), network)

\* the match on the version byte in from_str: data is what _decode_base58
\* returned
from_str_version(data) ==
    IF ~IsOk(data) THEN data
    ELSE LET x == data.val[1]
             hash == SubSeq(data.val, 2, 21)
         IN  IF x = 0 THEN Ok(BtcForkAddress(network_from_coin(<<"b","t","c">>).val, PubkeyHash(hash)))
             ELSE IF x = 5 THEN Ok(BtcForkAddress(network_from_coin(<<"b","t","c">>).val, ScriptHash(hash)))
             ELSE IF x = 48 THEN Ok(BtcForkAddress(network_from_coin(<<"l","t","c">>).val, PubkeyHash(hash)))
             ELSE IF x = 50 THEN Ok(BtcForkAddress(network_from_coin(<<"l","t","c">>).val, ScriptHash(hash)))
             ELSE IF x = 58
             THEN Ok(BtcForkAddress(network_from_coin(<<"l","t","c","-","t","e","s","t","n","e","t">>).val,
                                    ScriptHash(hash)))
             ELSE IF x = 111
             THEN Ok(BtcForkAddress(network_from_coin(<<"b","t","c","-","t","e","s","t","n","e","t">>).val,
                                    PubkeyHash(hash)))
             ELSE IF x = 196
             THEN Ok(BtcForkAddress(network_from_coin(<<"b","t","c","-","t","e","s","t","n","e","t">>).val,
                                    ScriptHash(hash)))
             ELSE Err(Base58E("InvalidVersion", <<x>>))

\* the Base58Check branch of from_str
from_str_base58(s) == from_str_version(_decode_base58(s))

\* FromStr for BtcForkAddress
from_str(s) ==
    LET network == bech32_network(s)
    IN  IF is_some(network) THEN from_str_bech32(s, network.val) ELSE from_str_base58(s)

(***************************************************************************)
(* Address operations                                                      *)
(***************************************************************************)
\* Address::is_valid
is_valid(address) == Panic("not implemented")

\* from_public_key without the tcx_ensure on the network: the expect that
\* follows it panics
from_public_key_unchecked(public_key, coin) ==
    LET pub_key == Secp256k1PublicKey_from_slice(public_key)
    IN  IF IsErr(pub_key) THEN pub_key
        ELSE IF is_none(coin) THEN Panic("coin from address_pub_key")
        ELSE LET network == network_from_coin(coin.val)
             IN  IF ~is_some(network) THEN Panic("network")
                 ELSE LET addr == p2shwpkh(pub_key.val, network.val)
                      IN  IF IsErr(addr) THEN addr ELSE Ok(to_string(addr.val))

\* Address::from_public_key: coin is an Option
from_public_key(public_key, coin) ==
    LET pub_key == Secp256k1PublicKey_from_slice(public_key)
    IN  IF IsErr(pub_key) THEN pub_key
        ELSE IF is_none(coin) THEN Panic("coin from address_pub_key")
        ELSE LET network == network_from_coin(coin.val)
             IN  IF ~is_some(network) THEN Err(E("UnsupportedChain", <<>>))
                 ELSE LET addr == p2shwpkh(pub_key.val, network.val)
                      IN  IF IsErr(addr) THEN addr ELSE Ok(to_string(addr.val))

\* the match of address_like with the ScriptHash and WitnessProgram arms exchanged
address_like_swapped(target, pub_key) ==
    IF ~IsOk(target) THEN target
    ELSE IF target.val.payload.kind = "PubkeyHash" THEN p2pkh(pub_key, target.val.network)
    ELSE IF target.val.payload.kind = "ScriptHash" THEN p2wpkh(pub_key, target.val.network)
    ELSE p2shwpkh(pub_key, target.val.network)

\* the match of address_like on the payload: target is what from_str returned
address_like_target(target, pub_key) ==
    IF ~IsOk(target) THEN target
    ELSE IF target.val.payload.kind = "PubkeyHash" THEN p2pkh(pub_key, target.val.network)
    ELSE IF target.val.payload.kind = "ScriptHash" THEN p2shwpkh(pub_key, target.val.network)
    ELSE p2wpkh(pub_key, target.val.network)

address_like(target_addr, pub_key) == address_like_target(from_str(target_addr), pub_key)

\* DerivationInfo::encode_with_network: the extended key under a 4-byte version
encode_with_network(derivation_info, prefix) == [version |-> prefix, key |-> derivation_info]

extended_public_key(derivation_info, coin_info) ==
    LET network == network_from_coin(coin_info.symbol)
    IN  IF ~is_some(network) THEN Err(E("UnsupportedChain", <<>>))
        ELSE Ok(encode_with_network(derivation_info, network.val.xpub_prefix))

extended_private_key(derivation_info, coin_info) ==
    LET network == network_from_coin(coin_info.symbol)
    IN  IF ~is_some(network) THEN Err(E("UnsupportedChain", <<>>))
        ELSE Ok(encode_with_network(derivation_info, network.val.xprv_prefix))

(***************************************************************************)
(* TRON transaction signer                                                 *)
(***************************************************************************)
\* serde_json::Value
JNull == [json |-> "null"]
JString(str) == [json |-> "string", str |-> str]
JArray(items) == [json |-> "array", items |-> items]
JObject(fields) == [json |-> "object", fields |-> fields]

\* Value["key"]: the member of an object, Null for a missing member or another value
json_index(value, key) ==
    IF value.json = "object" /\ key \in DOMAIN value.fields THEN value.fields[key] ELSE JNull

\* Value::as_str
as_str(value) == IF value.json = "string" THEN Some(value.str) ELSE None

\* serde_json::Map::insert on the object
json_insert(value, key, member) == JObject((key :> member) @@ value.fields)

HexChars == <<"0","1","2","3","4","5","6","7","8","9","a","b","c","d","e","f">>

is_hex(c) == char_to_lowercase(c) \in Range(HexChars)
hex_val(c) == IndexOf(HexChars, char_to_lowercase(c)) - 1

\* hex::decode
hex_decode(str) ==
    IF Len(str) % 2 # 0 THEN Err(E("FromHexError(OddLength)", <<>>))
    ELSE IF \E i \in 1..Len(str) : ~is_hex(str[i])
    THEN Err(E("FromHexError(InvalidHexCharacter)", <<leading_in(str, {c \in Range(str) : is_hex(c)})>>))
    ELSE Ok([i \in 1..(Len(str) \div 2) |-> 16 * hex_val(str[2 * i - 1]) + hex_val(str[2 * i])])

\* hex::encode of a signature
hex_encode(signature) == [hex |-> signature]

\* HdKeystore::account: the account of a coin symbol, if the keystore has one
account(keystore, symbol) ==
    IF symbol \in DOMAIN keystore.accounts THEN Some(keystore.accounts[symbol]) ELSE None

\* HdKeystore::get_pair: the key pair at a path, unlocked by the password
get_pair(keystore, path, password) ==
    IF password # keystore.password THEN Err(E("InvalidPassword", <<>>))
    ELSE Ok([path |-> path, signs |-> keystore.signs])

\* Pair::sign_recoverable: the signature of the pair over the hash of the data
sign_recoverable(pair, data) ==
    IF pair.signs THEN Ok([signed |-> data, path |-> pair.path]) ELSE Err(E("SignError", <<>>))

\* sha256::Hash::hash of the raw data: the digest, as a term over the data
Hash_hash(data) == [sha256 |-> data]

\* TransactionSigner::sign_transaction for HdKeystore
sign_transaction(keystore, tx, password) ==
    LET raw == tx
        hex == as_str(json_index(raw, "raw_data_hex"))
    IN  IF ~is_some(password) THEN Err(E("InvalidPassword", <<>>))
        ELSE IF is_none(hex) THEN Panic("called Option::unwrap() on a None value")
        ELSE LET data == hex_decode(hex.val)
                 acc == account(keystore, "TRON")
             IN  IF IsErr(data) THEN data
                 ELSE IF is_none(acc) THEN Err(E("account_not_found", <<>>))
                 ELSE LET pair == get_pair(keystore, acc.val, password.val)
                      IN  IF IsErr(pair) THEN pair
                          ELSE LET sign_result == sign_recoverable(pair.val, Hash_hash(data.val))
                               IN  IF IsOk(sign_result)
                                   THEN Ok(json_insert(raw, "signature",
                                                       JArray(<<JString(hex_encode(sign_result.val))>>)))
                                   ELSE Err(E("can not format error", <<>>))

(***************************************************************************)
(* Inputs                                                                  *)
(***************************************************************************)
\* longest witness program among the Bech32 inputs, in bytes
MaxProgLen == 41

\* the registry ids, the two further names network_from_coin accepts, and
\* identifiers it does not know
RegistryIds == {<<"L","T","C">>, <<"L","T","C","-","T","E","S","T","N","E","T">>, <<"B","T","C">>, <<"B","T","C","-","T","E","S","T","N","E","T">>, <<"B","C","H">>}
AliasIds == {<<"b","c">>, <<"b","i","t","c","o","i","n","c","a","s","h">>}
UnknownIds == {<<"d","o","g","e","c","o","i","n">>, <<"t","l","t","c">>, <<"t","b">>, <<"T","R","O","N">>, <<"l","t","c"," ","t","e","s","t","n","e","t">>, <<>>}

capitalize(s) == [i \in 1..Len(s) |-> IF i = 1 THEN char_to_uppercase(s[i]) ELSE char_to_lowercase(s[i])]
CaseVariants(ids) == UNION {{id, to_lowercase(id), to_uppercase(id), capitalize(id)} : id \in ids}

CoinIds == CaseVariants(RegistryIds \cup AliasIds \cup UnknownIds)

\* the five networks of the registry
Networks == {n.val : n \in {m \in {network_from_coin(id) : id \in RegistryIds} : is_some(m)}}

PubKeys == {TestVectorKey, Ltc1Key, OffCurveKey}

\* version bytes of Base58Check inputs: the seven of from_str's table and others
TableVersions == {0, 5, 48, 50, 58, 111, 196}
OtherVersions == {1, 85, 255}

\* 20-byte hashes of Base58Check inputs: the hashes of the keys and BcHash
Hashes == {hash160(k) : k \in CurvePoints} \cup
          {hash160(<<0, 20>> \o hash160(k)) : k \in CurvePoints} \cup {BcHash}

Base58CheckInputs ==
    {[form |-> "base58check", payload |-> <<v>> \o h] : v \in TableVersions \cup OtherVersions, h \in Hashes}
    \cup {[form |-> "base58check", payload |-> ShortPayload],
          [form |-> "base58check", payload |-> LongPayload]}

\* the text of a Base58Check input
Base58CheckText(in) == check_encode_slice(in.payload)

\* prefixes of Bech32 inputs: hrps of the registry, other names the registry
\* knows, and names it does not know
MainHrps == {<<"b","c">>, <<"l","t","c">>, <<"b","i","t","c","o","i","n","c","a","s","h">>, <<"b","t","c">>}
OtherHrps == {<<"b","c","h">>, <<"l","t","c","-","t","e","s","t","n","e","t">>, <<"b","t","c","-","t","e","s","t","n","e","t">>, <<"t","l","t","c">>}
WitnessVersions == {0, 1, 16, 17, 31}

ProgramOf(n) == [i \in 1..n |-> (37 * i + 11) % 256]

\* the 5-bit groups of a witness version and a program, as Display writes them
SegwitData(version, program) == <<version>> \o convert_bits(program, 8, 5, TRUE).val

\* groups after the version that do not re-pack to bytes
BadPaddings == {<<1>>, <<0, 1>>, <<31, 31, 31>>}

\* a Bech32 input: its prefix, its 5-bit groups, the program the groups after
\* the first stand for (if they stand for one) and the way it is written
Bech32Input(h, v, program, x) ==
    [form |-> "bech32", hrp |-> h, data |-> SegwitData(v, program), program |-> Some(program),
     variant |-> x]

Bech32Inputs ==
    {Bech32Input(h, v, ProgramOf(n), "plain") : h \in MainHrps, v \in WitnessVersions, n \in 0..MaxProgLen}
    \cup {Bech32Input(h, v, ProgramOf(n), "plain") : h \in OtherHrps, v \in {0, 16}, n \in {20, 32}}
    \cup {Bech32Input(h, v, ProgramOf(20), x) :
            h \in MainHrps, v \in WitnessVersions, x \in {"upper", "mixed", "badsum"}}
    \cup {[form |-> "bech32", hrp |-> h, data |-> <<v>> \o g, program |-> None, variant |-> "plain"] :
            h \in MainHrps, v \in WitnessVersions, g \in BadPaddings}
    \cup {[form |-> "bech32", hrp |-> h, data |-> <<>>, program |-> None, variant |-> "plain"] :
            h \in MainHrps}

\* the text of a Bech32 input: written in lower case, then all in upper case, or
\* with the prefix alone in upper case, or with its last character changed
Bech32Text(in) ==
    LET t == bech32_write(in.hrp, in.data)
    IN  IF in.variant = "upper" THEN to_uppercase(t)
        ELSE IF in.variant = "mixed" THEN to_uppercase(in.hrp) \o SubSeq(t, Len(in.hrp) + 1, Len(t))
        ELSE IF in.variant = "badsum"
        THEN [t EXCEPT ![Len(t)] = IF t[Len(t)] = "q" THEN "p" ELSE "q"]
        ELSE t

\* other texts: empty, short, with a character of neither alphabet, too long
RawTexts ==
    {<<>>, <<"1">>, <<"2">>, <<"b","c","1">>, <<"3","J","s","9","b","G","a","Z","S","Q","C","N","L","u","d","e","G","R","H","L","4","N","E","x","V","i","n","c","2","5","R","b","u","0">>,
     <<"3","J","s","9","b","G","a","Z","S","Q","C","N","L","u","d","e","G","R","H","L","4","N","E","x","V","i","n","c","2","5","R","b","u","H">>,
     Repeat("z", 51), <<"b","c","1","q","q","q","q","q","q">>, <<"3","_","s">>, <<"3","~">>,
     <<"3","_","s","9","b","G","a","Z","S","Q","C","N","L","u","d","e","G","R","H","L","4","N","E","x","V","i","n","c","2","5","R","b","u","G">>,
     <<"b","c","1","q","w","5","0","8","d","6","q","e","j","x","t","d","g","4","y","5","r","3","z","a","r","v","a","r","y","0","c","5","x","w","7","k","v","8","f","3","t","4">>,
     <<"b"," ","1","q","q","q","q","q","q","q">>, <<"b","\"","1","q","q","q","q","q","q","q">>}

TextInputs ==
    Base58CheckInputs \cup Bech32Inputs \cup {[form |-> "raw", text |-> t] : t \in RawTexts}

TextOf(in) ==
    IF in.form = "base58check" THEN Base58CheckText(in)
    ELSE IF in.form = "bech32" THEN Bech32Text(in)
    ELSE in.text

\* transaction payloads, passwords and keystores of the signer
Password == "Insecure Pa55w0rd"
Passwords == {None, Some(Password), Some("wrong")}

TxValues ==
    {JNull,
     JObject(<<>>),
     JObject("txID" :> JString(<<"d","c","7","4">>)),
     JObject("raw_data_hex" :> JNull),
     JObject("raw_data_hex" :> JString(<<"0","a","0","2","0","8","3","1","2","2","0","8">>)),
     JObject("raw_data_hex" :> JString(<<"0","A","0","2">>) @@ "txID" :> JString(<<"d","c","7","4">>)),
     JObject("raw_data_hex" :> JString(<<"0","a","0">>)),
     JObject("raw_data_hex" :> JString(<<"0","x","0","a">>))}

Keystores ==
    {[accounts |-> a, password |-> Password, signs |-> b] :
        a \in {<<>>, "TRON" :> "m/44'/145'/0'/0/0", "BTC" :> "m/44'/0'/0'/0/0"}, b \in BOOLEAN}

DerivationInfos == {"account 0", "account 1"}

(***************************************************************************)
(* State                                                                   *)
(***************************************************************************)
VARIABLES
    pc,         \* "idle", then "text" | "built" | "encoded", then "done"
    op,         \* the operation called last
    input,      \* how the text was made, for a text that came from outside
    text,       \* the address text
    pub_key,    \* the public key argument
    coin,       \* the coin identifier argument: an Option
    addr,       \* the address the builder returned
    ret,        \* what the last operation returned
    tx,         \* the transaction handed to the signer
    password,   \* the password handed to the signer: an Option
    keystore    \* the keystore that signs

vars == <<pc, op, input, text, pub_key, coin, addr, ret, tx, password, keystore>>

NoInput == [form |-> "none"]
NoKeystore == [accounts |-> <<>>, password |-> "", signs |-> FALSE]

Init ==
    /\ pc = "idle"
    /\ op = "none"
    /\ input = NoInput
    /\ text = <<>>
    /\ pub_key = <<>>
    /\ coin = None
    /\ addr = None
    /\ ret = None
    /\ tx = JNull
    /\ password = None
    /\ keystore = NoKeystore

(***************************************************************************)
(* Operations                                                              *)
(***************************************************************************)
\* a text arrives from outside
Receive(in) ==
    /\ pc = "idle"
    /\ pc' = "text"
    /\ op' = "receive"
    /\ input' = in
    /\ text' = TextOf(in)
    /\ UNCHANGED <<pub_key, coin, addr, ret, tx, password, keystore>>

\* BtcForkAddress::from_str on the text received or written
FromStr ==
    /\ pc \in {"text", "encoded"}
    /\ pc' = "done"
    /\ op' = "from_str"
    /\ ret' = from_str(text)
    /\ UNCHANGED <<input, text, pub_key, coin, addr, tx, password, keystore>>

\* Address::is_valid on the text received
IsValid ==
    /\ pc = "text"
    /\ pc' = "done"
    /\ op' = "is_valid"
    /\ ret' = is_valid(text)
    /\ UNCHANGED <<input, text, pub_key, coin, addr, tx, password, keystore>>

\* BtcForkAddress::address_like with the text received as the reference
AddressLike(pk) ==
    /\ pc = "text"
    /\ pc' = "done"
    /\ op' = "address_like"
    /\ pub_key' = pk
    /\ ret' = address_like(text, pk)
    /\ UNCHANGED <<input, text, coin, addr, tx, password, keystore>>

\* BtcForkAddress::p2pkh, p2shwpkh and p2wpkh for a network of the registry
Build(kind, pk, network) ==
    /\ pc = "idle"
    /\ op' = kind
    /\ pub_key' = pk
    /\ addr' = IF kind = "p2pkh" THEN p2pkh(pk, network)
               ELSE IF kind = "p2shwpkh" THEN p2shwpkh(pk, network)
               ELSE p2wpkh(pk, network)
    /\ pc' = IF IsOk(addr') THEN "built" ELSE "done"
    /\ UNCHANGED <<input, text, coin, ret, tx, password, keystore>>

\* Display of the address built
Display ==
    /\ pc = "built"
    /\ pc' = "encoded"
    /\ op' = "to_string"
    /\ text' = to_string(addr.val)
    /\ UNCHANGED <<input, pub_key, coin, addr, ret, tx, password, keystore>>

NetworkFromCoin(c) ==
    /\ pc = "idle"
    /\ pc' = "done"
    /\ op' = "network_from_coin"
    /\ coin' = Some(c)
    /\ ret' = network_from_coin(c)
    /\ UNCHANGED <<input, text, pub_key, addr, tx, password, keystore>>

FromPublicKey(pk, c) ==
    /\ pc = "idle"
    /\ pc' = "done"
    /\ op' = "from_public_key"
    /\ pub_key' = pk
    /\ coin' = c
    /\ ret' = from_public_key(pk, c)
    /\ UNCHANGED <<input, text, addr, tx, password, keystore>>

ExtendedPublicKey(d, c) ==
    /\ pc = "idle"
    /\ pc' = "done"
    /\ op' = "extended_public_key"
    /\ coin' = Some(c)
    /\ ret' = extended_public_key(d, [symbol |-> c])
    /\ UNCHANGED <<input, text, pub_key, addr, tx, password, keystore>>

ExtendedPrivateKey(d, c) ==
    /\ pc = "idle"
    /\ pc' = "done"
    /\ op' = "extended_private_key"
    /\ coin' = Some(c)
    /\ ret' = extended_private_key(d, [symbol |-> c])
    /\ UNCHANGED <<input, text, pub_key, addr, tx, password, keystore>>

SignTransaction(k, t, p) ==
    /\ pc = "idle"
    /\ pc' = "done"
    /\ op' = "sign_transaction"
    /\ keystore' = k
    /\ tx' = t
    /\ password' = p
    /\ ret' = sign_transaction(k, t, p)
    /\ UNCHANGED <<input, text, pub_key, coin, addr>>

Next ==
    \/ \E in \in TextInputs : Receive(in)
    \/ FromStr
    \/ IsValid
    \/ \E pk \in PubKeys : AddressLike(pk)
    \/ \E kind \in {"p2pkh", "p2shwpkh", "p2wpkh"}, pk \in PubKeys, n \in Networks : Build(kind, pk, n)
    \/ Display
    \/ \E c \in CoinIds : NetworkFromCoin(c)
    \/ \E pk \in PubKeys, c \in {None} \cup {Some(id) : id \in CoinIds} : FromPublicKey(pk, c)
    \/ \E d \in DerivationInfos, c \in CoinIds : ExtendedPublicKey(d, c)
    \/ \E d \in DerivationInfos, c \in CoinIds : ExtendedPrivateKey(d, c)
    \/ \E k \in Keystores, t \in TxValues, p \in Passwords : SignTransaction(k, t, p)

Spec == Init /\ [][Next]_vars


(***************************************************************************)
(* The registry as the specification tabulates it, and what the            *)
(* properties below say of a returned value                                *)
(***************************************************************************)
Registry ==
    {[coin |-> <<"L","T","C">>, hrp |-> <<"l","t","c">>, p2pkh_prefix |-> 48, p2sh_prefix |-> 50,
      xpub_prefix |-> <<4, 136, 178, 30>>, xprv_prefix |-> <<4, 136, 173, 228>>],
     [coin |-> <<"L","T","C","-","T","E","S","T","N","E","T">>, hrp |-> <<"l","t","c">>,
      p2pkh_prefix |-> 111, p2sh_prefix |-> 58,
      xpub_prefix |-> <<4, 136, 178, 30>>, xprv_prefix |-> <<4, 136, 173, 228>>],
     [coin |-> <<"B","T","C">>, hrp |-> <<"b","c">>, p2pkh_prefix |-> 0, p2sh_prefix |-> 5,
      xpub_prefix |-> <<4, 136, 178, 30>>, xprv_prefix |-> <<4, 136, 173, 228>>],
     [coin |-> <<"B","T","C","-","T","E","S","T","N","E","T">>, hrp |-> <<"b","c">>,
      p2pkh_prefix |-> 111, p2sh_prefix |-> 196,
      xpub_prefix |-> <<4, 136, 178, 30>>, xprv_prefix |-> <<4, 136, 173, 228>>],
     [coin |-> <<"B","C","H">>, hrp |-> <<"b","i","t","c","o","i","n","c","a","s","h">>,
      p2pkh_prefix |-> 0, p2sh_prefix |-> 5,
      xpub_prefix |-> <<4, 136, 178, 30>>, xprv_prefix |-> <<4, 136, 173, 228>>]}

\* the row of a registry id
Row(id) == CHOOSE row \in Registry : row.coin = id

\* an identifier is registered when it is one of the five ids in some letter case
Registered(id) == \E row \in Registry : to_lowercase(row.coin) = to_lowercase(id)

\* the two further names the lookup resolves
IsAlias(id) == to_lowercase(id) \in {<<"b","c">>, <<"b","i","t","c","o","i","n","c","a","s","h">>}

\* the lookup of the registry: the row of one of the five ids, the row of BTC
\* for "bc" and of BCH for "bitcoincash", in any letter case
Lookup(id) ==
    IF Registered(id)
    THEN Some(CHOOSE row \in Registry : to_lowercase(row.coin) = to_lowercase(id))
    ELSE IF to_lowercase(id) = <<"b","c">> THEN Some(Row(<<"B","T","C">>))
    ELSE IF to_lowercase(id) = <<"b","i","t","c","o","i","n","c","a","s","h">>
    THEN Some(Row(<<"B","C","H">>))
    ELSE None

\* the result is the error of the given variant
FailsWith(r, kind) == IsErr(r) /\ r.err.kind = kind

(***************************************************************************)
(* C7: registry lookup                                                     *)
(***************************************************************************)
\* C7 as stated: network_from_coin matches without regard to letter case; it
\* returns None for every identifier that is not one of the five registry
\* ids, and for each of the five, in any letter case, the row of the table.
C7_AsStated ==
    op = "network_from_coin" =>
        IF Registered(coin.val)
        THEN ret = Some(CHOOSE row \in Registry : to_lowercase(row.coin) = to_lowercase(coin.val))
        ELSE ret = None

\* C7: network_from_coin matches without regard to letter case; for each of
\* the five registry ids it returns the row of the table, for "bc" the row
\* of BTC, for "bitcoincash" the row of BCH, and None for every other
\* identifier.
C7_RegistryLookup ==
    op = "network_from_coin" => ret = Lookup(coin.val)

\* a lookup of LTC-TESTNET written with one capital has returned its row
C7_Witness ==
    /\ op = "network_from_coin"
    /\ coin = Some(<<"L","t","c","-","t","e","s","t","n","e","t">>)
    /\ ret = Some(Row(<<"L","T","C","-","T","E","S","T","N","E","T">>))

(***************************************************************************)
(* C6: unsupported coin                                                    *)
(***************************************************************************)
\* what C6 says of a call with the coin identifier of the state
UnsupportedOutcome ==
    /\ op = "network_from_coin" => ret = None
    /\ (op = "from_public_key" /\ pub_key \in CurvePoints) => FailsWith(ret, "UnsupportedChain")
    /\ op \in {"extended_public_key", "extended_private_key"} => FailsWith(ret, "UnsupportedChain")

\* C6 as stated: for a coin identifier that is not registered,
\* network_from_coin returns None, and from_public_key with a valid key,
\* extended_public_key and extended_private_key fail with UnsupportedChain.
C6_AsStated ==
    (is_some(coin) /\ ~Registered(coin.val)) => UnsupportedOutcome

\* C6: for a coin identifier that is neither one of the five registry ids
\* nor "bc" nor "bitcoincash" (in any letter case), network_from_coin
\* returns None, and from_public_key with a valid key, extended_public_key
\* and extended_private_key fail with UnsupportedChain and return no text.
C6_UnsupportedCoin ==
    (is_some(coin) /\ ~Registered(coin.val) /\ ~IsAlias(coin.val)) => UnsupportedOutcome

\* from_public_key with the key of the known-answer test and "dogecoin" has failed
C6_Witness ==
    /\ op = "from_public_key"
    /\ pub_key = TestVectorKey
    /\ coin = Some(<<"d","o","g","e","c","o","i","n">>)
    /\ FailsWith(ret, "UnsupportedChain")

(***************************************************************************)
(* C8: address_like                                                        *)
(***************************************************************************)
\* what C8 says of the address returned, given the decoded reference
LikeReference(reference) ==
    /\ (IsOk(reference) /\ pub_key \in CurvePoints) =>
          /\ IsOk(ret)
          /\ ret.val.network = reference.val.network
          /\ ret.val.payload.kind = reference.val.payload.kind
          /\ ret.val.payload.kind = "PubkeyHash" => ret.val.payload.hash = hash160(pub_key)
          /\ ret.val.payload.kind = "ScriptHash" =>
                ret.val.payload.hash = hash160(<<0, 20>> \o hash160(pub_key))
          /\ ret.val.payload.kind = "WitnessProgram" =>
                ret.val.payload.version = 0 /\ ret.val.payload.program = hash160(pub_key)
    /\ ~IsOk(reference) => ~IsOk(ret)

\* C8: when the reference text decodes and the key is valid, address_like
\* returns an address on the network of the decoded reference whose payload
\* is of the kind of the reference's: the hash of the key for PubkeyHash, the
\* hash of the wrapped witness script for ScriptHash, the version 0 witness
\* program of the key hash for WitnessProgram; when the reference text does
\* not decode, address_like fails and returns no address.
C8_AddressLike ==
    op = "address_like" => LikeReference(from_str(text))

\* address_like has built a wrapped witness address from a ScriptHash reference
C8_Witness ==
    /\ op = "address_like"
    /\ input.form = "base58check"
    /\ pub_key \in CurvePoints
    /\ IsOk(ret)
    /\ ret.val.payload.kind = "ScriptHash"


(***************************************************************************)
(* C4 and C5: the checks of the Bech32 branch of from_str                  *)
(***************************************************************************)
\* from_str has returned for a Bech32 text with a valid checksum, written in
\* one letter case, whose prefix the lookup of the registry resolves and
\* whose payload is not empty
SegwitCase ==
    /\ op = "from_str"
    /\ input.form = "bech32"
    /\ input.variant \in {"plain", "upper"}
    /\ is_some(Lookup(input.hrp))
    /\ input.data # <<>>

\* C4 as stated: a witness version 0 with a program of 2..=40 bytes, but not
\* 20 or 32, fails with InvalidSegwitV0ProgramLength; a program length
\* outside 2..=40 fails with InvalidWitnessProgramLength whatever the first
\* 5-bit group is.
C4_AsStated ==
    (SegwitCase /\ is_some(input.program)) =>
        LET n == Len(input.program.val)
            version == input.data[1]
        IN  /\ (version = 0 /\ n \in 2..40 /\ n \notin {20, 32}) =>
                  FailsWith(ret, "InvalidSegwitV0ProgramLength")
            /\ n \notin 2..40 => FailsWith(ret, "InvalidWitnessProgramLength")

\* C4: a witness version 0 with a program of 2..=40 bytes, but not 20 or 32,
\* fails with InvalidSegwitV0ProgramLength carrying the length; a program
\* length outside 2..=40 fails with InvalidWitnessProgramLength carrying the
\* length when the first 5-bit group is at most 16, and with
\* InvalidWitnessVersion when it is above 16.
C4_ProgramLength ==
    (SegwitCase /\ is_some(input.program)) =>
        LET n == Len(input.program.val)
            version == input.data[1]
        IN  /\ (version = 0 /\ n \in 2..40 /\ n \notin {20, 32}) =>
                  ret = Err(E("InvalidSegwitV0ProgramLength", <<n>>))
            /\ (version <= 16 /\ n \notin 2..40) =>
                  ret = Err(E("InvalidWitnessProgramLength", <<n>>))
            /\ (version > 16 /\ n \notin 2..40) =>
                  ret = Err(E("InvalidWitnessVersion", <<version>>))

\* from_str has refused a version 16 program of 41 bytes for its length
C4_Witness ==
    /\ SegwitCase
    /\ input.data[1] = 16
    /\ input.program = Some(ProgramOf(41))
    /\ ret = Err(E("InvalidWitnessProgramLength", <<41>>))

\* C5 as stated: a first 5-bit group above 16 fails with
\* InvalidWitnessVersion; a first group of 16 with a program of 2..=40 bytes
\* succeeds with WitnessProgram(16, program) on the network of the prefix.
C5_AsStated ==
    SegwitCase =>
        LET version == input.data[1]
        IN  /\ version > 16 => FailsWith(ret, "InvalidWitnessVersion")
            /\ (version = 16 /\ is_some(input.program) /\ Len(input.program.val) \in 2..40) =>
                  /\ IsOk(ret)
                  /\ ret.val.payload = WitnessProgram(16, input.program.val)
                  /\ ret.val.network = Lookup(input.hrp).val

\* C5: a first 5-bit group above 16 fails with InvalidWitnessVersion
\* carrying the group when the groups after it re-pack to whole bytes, and
\* with the InvalidPadding error of the Bech32 library when they do not; a
\* first group of 16 with a program of 2..=40 bytes succeeds with
\* WitnessProgram(16, program) on the network the lookup of the registry
\* gives for the prefix.
C5_WitnessVersionBound ==
    SegwitCase =>
        LET version == input.data[1]
        IN  /\ (version > 16 /\ is_some(input.program)) =>
                  ret = Err(E("InvalidWitnessVersion", <<version>>))
            /\ (version > 16 /\ is_none(input.program)) => ret = Err(Bech32E("InvalidPadding"))
            /\ (version = 16 /\ is_some(input.program) /\ Len(input.program.val) \in 2..40) =>
                  /\ IsOk(ret)
                  /\ ret.val.payload = WitnessProgram(16, input.program.val)
                  /\ ret.val.network = Lookup(input.hrp).val

\* from_str has refused the witness version 17 of a text in upper case
C5_Witness ==
    /\ SegwitCase
    /\ input.variant = "upper"
    /\ input.data[1] = 17
    /\ ret = Err(E("InvalidWitnessVersion", <<17>>))


(***************************************************************************)
(* C1: round trip                                                          *)
(***************************************************************************)
\* C1: for every network of the registry, every kind of address the builder
\* makes and every valid public key, from_str of the text Display writes
\* returns the address built, network and payload.
C1_RoundTrip ==
    (op = "from_str" /\ input.form = "none" /\ IsOk(addr)) => ret = Ok(addr.val)

(***************************************************************************)
(* C2: no panic                                                            *)
(***************************************************************************)
\* C2: for every text, every public key and every coin argument, present or
\* absent, is_valid, from_str, address_like and from_public_key return a
\* value or an error and do not panic.
C2_NeverPanics ==
    op \in {"is_valid", "from_str", "address_like", "from_public_key"} => ~IsPanic(ret)

(***************************************************************************)
(* C3: the table of version bytes                                          *)
(***************************************************************************)
\* the seven rows of the table: version byte, registry id, payload kind
VersionRows ==
    {<<0, <<"B","T","C">>, "PubkeyHash">>,
     <<5, <<"B","T","C">>, "ScriptHash">>,
     <<48, <<"L","T","C">>, "PubkeyHash">>,
     <<50, <<"L","T","C">>, "ScriptHash">>,
     <<58, <<"L","T","C","-","T","E","S","T","N","E","T">>, "ScriptHash">>,
     <<111, <<"B","T","C","-","T","E","S","T","N","E","T">>, "PubkeyHash">>,
     <<196, <<"B","T","C","-","T","E","S","T","N","E","T">>, "ScriptHash">>}

\* C3: from_str of the Base58Check text of a version byte and a 20-byte hash
\* returns, for each of the seven rows of the table, the address of the
\* row's network and payload kind that carries the hash, and for any other
\* version byte the error of an unknown version that carries the byte.
C3_VersionByteTable ==
    (op = "from_str" /\ input.form = "base58check" /\ Len(input.payload) = 21) =>
        LET version == input.payload[1]
            hash == SubSeq(input.payload, 2, 21)
        IN  IF \E row \in VersionRows : row[1] = version
            THEN LET row == CHOOSE r \in VersionRows : r[1] = version
                 IN  ret = Ok([network |-> Row(row[2]), payload |-> [kind |-> row[3], hash |-> hash]])
            ELSE ret = Err(Base58E("InvalidVersion", <<version>>))

(***************************************************************************)
(* C9: the errors of the TRON signer                                       *)
(***************************************************************************)
\* C9: for every transaction payload, sign_transaction without a password
\* fails with InvalidPassword, and with a password on a keystore that has no
\* TRON account it fails with account_not_found; either way it returns no
\* signed transaction.
C9_SignErrors ==
    op = "sign_transaction" =>
        /\ is_none(password) => FailsWith(ret, "InvalidPassword")
        /\ (is_some(password) /\ "TRON" \notin DOMAIN keystore.accounts) =>
              FailsWith(ret, "account_not_found")

(***************************************************************************)
(* C10: the network of a Bech32 text                                       *)
(***************************************************************************)
\* C10: for every text on which from_str returns a WitnessProgram address,
\* the hrp of the network returned is the text before the last '1' in lower
\* case, and Display of the address returned is the text in lower case.
C10_HrpResolution ==
    (op = "from_str" /\ IsOk(ret) /\ ret.val.payload.kind = "WitnessProgram") =>
        /\ ret.val.network.hrp = to_lowercase(SubSeq(text, 1, rfind1(text)))
        /\ to_string(ret.val) = to_lowercase(text)

====
